---- MODULE Spec2Model ----
(***************************************************************************)
(* Model of the Speech-to-Cursor Electron application:                     *)
(*   - main.js     : main process (overlay window, focus capture/restore,   *)
(*                   clipboard, paste-text delivery, API-key store)         *)
(*   - overlay.js  : renderer process (recorder, processing pipeline)       *)
(* The two processes exchange messages over two FIFO IPC channels.          *)
(* Each JavaScript handler runs to completion, so each action is one        *)
(* handler (or the part of an async function between two awaits).           *)
(***************************************************************************)
EXTENDS Integers, Sequences, FiniteSets, TLC

(* ------------------------------ bounds --------------------------------- *)
\* number of MediaRecorder objects (recordings) created in one run
MaxRecordings == 2
\* user-originated messages waiting in one IPC channel
MaxQueue == 1
\* API-key input windows created in one run
MaxKeyWindows == 3

(* ------------------------------ values --------------------------------- *)
\* null window handle
Null == "null"
\* an undefined text (a missing JSON field); not a sequence of characters
Undef == <<"undefined">>

RecIds == 1..MaxRecordings
KeyWinIds == 1..MaxKeyWindows

\* window handles GetForegroundWindow can print
Handles == {"h1", "h2"}
\* keys a user saves in the key input window
SavedKeys == {"k1"}
\* values of store.get("groqApiKey") || ""
Keys == {""} \cup SavedKeys
\* texts are sequences of characters; " " is the whitespace character
RawTexts == {Undef, <<" ">>, <<"a">>}
LlmContents == {Undef, <<" ">>, <<"a", " ">>, <<"b">>}
HttpErrors == {401, 429}
OtherClipboard == <<"o">>

\* a trim that strips nothing (a blank test written as !rawText)
TrimNothing(s) == s

(* String.prototype.trim on a sequence of characters *)
RECURSIVE TrimLeft(_)
TrimLeft(s) ==
    IF s = <<>> THEN <<>>
    ELSE IF Head(s) = " " THEN TrimLeft(Tail(s)) ELSE s

RECURSIVE TrimRight(_)
TrimRight(s) ==
    IF s = <<>> THEN <<>>
    ELSE IF s[Len(s)] = " " THEN TrimRight(SubSeq(s, 1, Len(s) - 1)) ELSE s

Trim(s) == TrimRight(TrimLeft(s))

\* whisperResult.text || ""
OrEmpty(t) == IF t = Undef THEN <<>> ELSE t

\* a completion taken without the trim
OptKeep(t) == t

\* data.choices?.[0]?.message?.content?.trim()
OptTrim(t) == IF t = Undef THEN Undef ELSE Trim(t)

\* JavaScript truthiness of a text, of a window handle and of a key
TruthyText(t) == t # Undef /\ t # <<>>
TruthyHandle(h) == h # Null /\ h # ""
\* a key check that lets the empty string through
TruthyKeyAlways(k) == TRUE
TruthyKey(k) == k # ""

(* ------------------------------ state ---------------------------------- *)
VARIABLES
    \* main process (main.js)
    overlayShown,        \* the overlay BrowserWindow is visible
    isOverlayVisible,    \* main.js flag
    targetWindowHandle,  \* main.js module variable
    clipboard,           \* OS clipboard
    storeKey,            \* store.get("groqApiKey") || ""
    deliveries,          \* paste-text handler invocations, by recording id
    mainLog,             \* window/OS effects of the latest overlay handler, in order
    \* IPC channels
    toMain,              \* renderer -> main
    toRenderer,          \* main -> renderer
    \* renderer process (overlay.js)
    recorders,           \* MediaRecorder objects created so far
    mediaRecorder,       \* index into recorders, 0 = null
    audioChunks,         \* recording ids whose data blob was pushed
    isRecording,
    isProcessing,
    status,              \* statusEl.textContent
    pendingGUM,          \* startRecording calls awaiting getUserMedia
    stopTask,            \* queued dataavailable+stop task: 0 or a recorder id
    pipelines,           \* handleRecordingStop invocations, by recording id
    \* API-key input windows (showApiKeyInputWindow)
    keyWins,             \* each keyWin: not created, open or closed
    onceSave,            \* ipcMain.once("save-api-key") listeners, by window, in order
    onceClose,           \* ipcMain.once("close-key-window") listeners, by window, in order
    saveAwaits,          \* save handlers past their await of getStore: the key they hold
    staleListenerRan     \* the latest emit ran a listener whose keyWin was destroyed

mainVars == <<overlayShown, isOverlayVisible, targetWindowHandle, clipboard,
              storeKey, deliveries, mainLog>>
ipcVars == <<toMain, toRenderer>>
rendVars == <<recorders, mediaRecorder, audioChunks, isRecording, isProcessing,
              status, pendingGUM, stopTask, pipelines>>
keyVars == <<keyWins, onceSave, onceClose, saveAwaits, staleListenerRan>>
vars == <<overlayShown, isOverlayVisible, targetWindowHandle, clipboard,
          storeKey, deliveries, mainLog, toMain, toRenderer,
          recorders, mediaRecorder, audioChunks, isRecording, isProcessing,
          status, pendingGUM, stopTask, pipelines,
          keyWins, onceSave, onceClose, saveAwaits, staleListenerRan>>

\* no response of a remote service yet
NoResp == [kind |-> "none"]

\* a run of handleRecordingStop: its position and its local variables.
\* cancelled and dismissed are history the code does not keep: the recording
\* was stopped by an activation trigger's reset-ui; a user's dismissal reset
\* the UI while the run was outstanding.
NoPipeline ==
    [pc |-> "none", blob |-> <<>>, apiKey |-> "", resp |-> NoResp,
     rawText |-> <<>>, correctedText |-> <<>>,
     cancelled |-> FALSE, dismissed |-> FALSE]

\* a run of the paste-text handler: its position, its argument, the steps
\* it has performed so far and the error argument of the restore's callback
NoDelivery == [pc |-> "none", text |-> <<>>, steps |-> <<>>, restoreError |-> FALSE]

\* the error field of a paste-text result: err.message, or no field
SendKeysFailed == "SendKeys failed"
NoError == ""

Init ==
    /\ overlayShown = FALSE
    /\ isOverlayVisible = FALSE
    /\ targetWindowHandle = Null
    /\ clipboard = OtherClipboard
    /\ storeKey \in Keys
    /\ deliveries = [r \in RecIds |-> NoDelivery]
    /\ mainLog = <<>>
    /\ toMain = <<>>
    /\ toRenderer = <<>>
    /\ recorders = <<>>
    /\ mediaRecorder = 0
    /\ audioChunks = <<>>
    /\ isRecording = FALSE
    /\ isProcessing = FALSE
    /\ status = "Ready"
    /\ pendingGUM = 0
    /\ stopTask = [rec |-> 0, hasData |-> FALSE, cancelled |-> FALSE]
    /\ pipelines = [r \in RecIds |-> NoPipeline]
    /\ keyWins = [w \in KeyWinIds |-> "none"]
    /\ onceSave = <<>>
    /\ onceClose = <<>>
    /\ saveAwaits = [w \in KeyWinIds |-> Null]
    /\ staleListenerRan = FALSE

(* --------------------------- main process ------------------------------ *)

\* captureTargetWindow: execSync either prints the handle or throws
\* (non-zero exit, timeout); outcome is Null on failure
CaptureOutcomes == Handles \cup {Null}

\* a capture whose catch block leaves the previous handle in place
captureKeepsStaleHandle(outcome) ==
    [handle |-> IF outcome = Null THEN targetWindowHandle ELSE outcome,
     log |-> <<IF outcome = Null THEN "capture-failed" ELSE "capture-ok">>]

captureTargetWindow(outcome) ==
    [handle |-> outcome,
     log |-> <<IF outcome = Null THEN "capture-failed" ELSE "capture-ok">>]

\* a showOverlay that captures after the overlay has taken the focus
showOverlayThenCapture(outcome) ==
    LET cap == captureTargetWindow(outcome) IN
    /\ targetWindowHandle' = cap.handle
    /\ overlayShown' = TRUE
    /\ isOverlayVisible' = TRUE
    /\ mainLog' = <<"show", "focus">> \o cap.log
    /\ UNCHANGED toRenderer

\* showOverlay: capture, then show, focus and set the flag
showOverlay(outcome) ==
    LET cap == captureTargetWindow(outcome) IN
    /\ targetWindowHandle' = cap.handle
    /\ overlayShown' = TRUE
    /\ isOverlayVisible' = TRUE
    /\ mainLog' = cap.log \o <<"show", "focus">>
    /\ UNCHANGED toRenderer

\* hideOverlay: hide the window, clear the flag, send reset-ui.
\* cause is the origin of the call; the renderer's code never reads it.
hideOverlay(cause) ==
    /\ overlayShown' = FALSE
    /\ isOverlayVisible' = FALSE
    /\ toRenderer' = Append(toRenderer, [type |-> "reset-ui", cause |-> cause])
    /\ mainLog' = <<"hide">>

\* messages of the user's dismissals and hiding triggers still in flight
\* (hide-overlay to the main process, their reset-ui to the renderer)
UserMessages ==
    Cardinality({i \in 1..Len(toMain) : toMain[i].type = "hide-overlay"})
    + Cardinality({i \in 1..Len(toRenderer) :
                      /\ toRenderer[i].type = "reset-ui"
                      /\ toRenderer[i].cause # "paste"})

\* a toggle without the hide branch
toggleAlwaysShows(outcome) == showOverlay(outcome)

\* toggleOverlay, run by the global shortcut, the tray double-click and the
\* tray menu item "Activate"
toggleOverlay(outcome) ==
    IF isOverlayVisible
    THEN hideOverlay("trigger") /\ UNCHANGED targetWindowHandle
    ELSE showOverlay(outcome)

ActivationTrigger ==
    /\ isOverlayVisible => UserMessages < MaxQueue
    /\ \E outcome \in CaptureOutcomes :
          \* the capture runs only on the show branch
          /\ (isOverlayVisible => outcome = Null)
          /\ toggleOverlay(outcome)
    /\ UNCHANGED <<clipboard, storeKey, deliveries, toMain>>
    /\ UNCHANGED rendVars
    /\ UNCHANGED keyVars

\* ipcMain.on("hide-overlay")
HideOverlayMessage ==
    /\ toMain # <<>>
    /\ Head(toMain).type = "hide-overlay"
    /\ toMain' = Tail(toMain)
    /\ hideOverlay("dismiss")
    /\ UNCHANGED <<targetWindowHandle, clipboard, storeKey, deliveries>>
    /\ UNCHANGED rendVars
    /\ UNCHANGED keyVars

\* restoreTargetWindow, synchronous part: no exec when the handle is falsy
restoreStarts(handle) == TruthyHandle(handle)

\* ipcMain.handle("paste-text"), up to the first await that suspends:
\* clipboard.writeText, hideOverlay, restoreTargetWindow's exec (or, with no
\* handle, straight on to sleep(150))
PasteTextStart ==
    /\ toMain # <<>>
    /\ Head(toMain).type = "paste-text"
    /\ LET m == Head(toMain)
           execs == restoreStarts(targetWindowHandle) IN
       /\ toMain' = Tail(toMain)
       /\ clipboard' = m.text
       /\ hideOverlay("paste")
       /\ deliveries' = [deliveries EXCEPT ![m.p] =
             [pc |-> IF execs THEN "restoring" ELSE "settling",
              text |-> m.text,
              steps |-> IF execs THEN <<"write", "hide", "restore">>
                        ELSE <<"write", "hide", "restore-noop">>,
              restoreError |-> FALSE]]
    /\ UNCHANGED <<targetWindowHandle, storeKey>>
    /\ UNCHANGED rendVars
    /\ UNCHANGED keyVars

\* a handler without the settle delay: simulatePaste right after the restore
RestoreDoneThenInject(r) ==
    /\ deliveries[r].pc = "restoring"
    /\ deliveries' = [deliveries EXCEPT
          ![r].pc = "injecting",
          ![r].steps = @ \o <<"restore-returned", "inject">>]
    /\ UNCHANGED <<overlayShown, isOverlayVisible, targetWindowHandle, clipboard,
                   storeKey, mainLog>>
    /\ UNCHANGED ipcVars
    /\ UNCHANGED rendVars
    /\ UNCHANGED keyVars

\* a restoreTargetWindow that rejects on an exec error: the handler's catch
\* returns {success: false, error} without the injection
RestoreDoneRejects(r) ==
    /\ deliveries[r].pc = "restoring"
    /\ \E failed \in BOOLEAN :
          IF failed
          THEN /\ deliveries' = [deliveries EXCEPT ![r] = [NoDelivery EXCEPT !.pc = "done"]]
               /\ toRenderer' = Append(toRenderer,
                     [type |-> "paste-result", p |-> r, success |-> FALSE,
                      error |-> "restore failed"])
          ELSE /\ deliveries' = [deliveries EXCEPT
                     ![r].pc = "settling",
                     ![r].steps = Append(@, "restore-returned")]
               /\ UNCHANGED toRenderer
    /\ UNCHANGED <<overlayShown, isOverlayVisible, targetWindowHandle, clipboard,
                   storeKey, mainLog, toMain>>
    /\ UNCHANGED rendVars
    /\ UNCHANGED keyVars

\* exec callback of restoreTargetWindow: resolves whether or not the
\* PowerShell call failed or timed out; then sleep(150) starts
RestoreDone(r) ==
    /\ deliveries[r].pc = "restoring"
    /\ \E failed \in BOOLEAN :
          deliveries' = [deliveries EXCEPT
              ![r].pc = "settling",
              ![r].steps = Append(@, "restore-returned"),
              ![r].restoreError = failed]
    /\ UNCHANGED <<overlayShown, isOverlayVisible, targetWindowHandle, clipboard,
                   storeKey, mainLog>>
    /\ UNCHANGED ipcVars
    /\ UNCHANGED rendVars
    /\ UNCHANGED keyVars

\* sleep(150) elapses; simulatePaste starts its exec
SettleDone(r) ==
    /\ deliveries[r].pc = "settling"
    /\ deliveries' = [deliveries EXCEPT
          ![r].pc = "injecting",
          ![r].steps = Append(@, "settled") \o <<"inject">>]
    /\ UNCHANGED <<overlayShown, isOverlayVisible, targetWindowHandle, clipboard,
                   storeKey, mainLog>>
    /\ UNCHANGED ipcVars
    /\ UNCHANGED rendVars
    /\ UNCHANGED keyVars

\* exec callback of simulatePaste: resolve or reject; the handler returns
\* {success: true} or, from its catch, {success: false, error}
InjectDone(r) ==
    /\ deliveries[r].pc = "injecting"
    /\ \E error \in BOOLEAN :
          /\ deliveries' = [deliveries EXCEPT ![r] = [NoDelivery EXCEPT !.pc = "done"]]
          /\ toRenderer' = Append(toRenderer,
                [type |-> "paste-result", p |-> r, success |-> ~error,
                 error |-> IF error THEN SendKeysFailed ELSE NoError])
    /\ UNCHANGED <<overlayShown, isOverlayVisible, targetWindowHandle, clipboard,
                   storeKey, mainLog, toMain>>
    /\ UNCHANGED rendVars
    /\ UNCHANGED keyVars

\* a save that also replaces the key of the runs in flight
SaveApiKeyReachesRunsInFlight(key) ==
    /\ TruthyKey(key)
    /\ storeKey' = key
    /\ pipelines' = [p \in RecIds |->
          IF pipelines[p].pc \in {"transcribing", "transcribed", "correcting", "corrected"}
          THEN [pipelines[p] EXCEPT !.apiKey = key]
          ELSE pipelines[p]]
    /\ UNCHANGED <<overlayShown, isOverlayVisible, targetWindowHandle, clipboard,
                   deliveries, mainLog>>
    /\ UNCHANGED ipcVars
    /\ UNCHANGED <<recorders, mediaRecorder, audioChunks, isRecording, isProcessing,
                   status, pendingGUM, stopTask>>
    /\ UNCHANGED keyVars

\* save handler of the key input window: stores key.trim() when non-blank
SaveApiKey(key) ==
    /\ TruthyKey(key)
    /\ storeKey' = key
    /\ UNCHANGED <<overlayShown, isOverlayVisible, targetWindowHandle, clipboard,
                   deliveries, mainLog>>
    /\ UNCHANGED ipcVars
    /\ UNCHANGED rendVars
    /\ UNCHANGED keyVars

(* -------------------------- renderer process --------------------------- *)

NoTask == [rec |-> 0, hasData |-> FALSE, cancelled |-> FALSE]

\* The task queued by MediaRecorder.stop() (dataavailable, then stop) runs
\* before any event that arrives later in the renderer.
RendererIdle == stopTask = NoTask

\* a stopped recorder
Inactive == [state |-> "inactive", streamOpen |-> FALSE, hasData |-> FALSE]

\* mediaRecorder && mediaRecorder.state !== "inactive"
recorderActive ==
    /\ mediaRecorder # 0
    /\ recorders[mediaRecorder].state # "inactive"

\* stopRecording: stop the recorder and its stream's tracks when it is
\* active, clear isRecording.  byTrigger tells that the caller is the
\* reset-ui of an activation trigger; the code never reads it.
stopRecording(byTrigger) ==
    /\ recorders' =
          IF recorderActive
          THEN [recorders EXCEPT ![mediaRecorder] = Inactive]
          ELSE recorders
    /\ stopTask' =
          IF recorderActive
          THEN [rec |-> mediaRecorder,
                hasData |-> recorders[mediaRecorder].hasData,
                cancelled |-> byTrigger]
          ELSE stopTask
    /\ isRecording' = FALSE

\* recordBtn click listener; the start branch is startRecording up to its
\* await of getUserMedia
RecordClick ==
    /\ overlayShown
    /\ RendererIdle
    /\ IF isProcessing
       THEN UNCHANGED <<recorders, stopTask, isRecording, pendingGUM>>
       ELSE IF isRecording
            THEN stopRecording(FALSE) /\ UNCHANGED pendingGUM
            ELSE /\ Len(recorders) + pendingGUM < MaxRecordings
                 /\ pendingGUM' = pendingGUM + 1
                 /\ UNCHANGED <<recorders, stopTask, isRecording>>
    /\ UNCHANGED <<mediaRecorder, audioChunks, isProcessing, status, pipelines>>
    /\ UNCHANGED mainVars
    /\ UNCHANGED ipcVars
    /\ UNCHANGED keyVars

\* a startRecording that sets isRecording before it knows it has a stream
GetUserMediaSettlesFlagFirst ==
    /\ pendingGUM > 0
    /\ RendererIdle
    /\ pendingGUM' = pendingGUM - 1
    /\ isRecording' = TRUE
    /\ \E granted \in BOOLEAN :
          IF granted
          THEN /\ recorders' = Append(recorders,
                      [state |-> "recording", streamOpen |-> TRUE, hasData |-> FALSE])
               /\ mediaRecorder' = Len(recorders) + 1
               /\ audioChunks' = <<>>
               /\ status' = "Recording"
          ELSE /\ status' = "Mic error"
               /\ UNCHANGED <<recorders, mediaRecorder, audioChunks>>
    /\ UNCHANGED <<isProcessing, stopTask, pipelines>>
    /\ UNCHANGED mainVars
    /\ UNCHANGED ipcVars
    /\ UNCHANGED keyVars

\* startRecording after getUserMedia settles: create and start the recorder,
\* or report the microphone error
GetUserMediaSettles ==
    /\ pendingGUM > 0
    /\ RendererIdle
    /\ pendingGUM' = pendingGUM - 1
    /\ \E granted \in BOOLEAN :
          IF granted
          THEN /\ recorders' = Append(recorders,
                      [state |-> "recording", streamOpen |-> TRUE, hasData |-> FALSE])
               /\ mediaRecorder' = Len(recorders) + 1
               /\ audioChunks' = <<>>
               /\ isRecording' = TRUE
               /\ status' = "Recording"
          ELSE /\ status' = "Mic error"
               /\ UNCHANGED <<recorders, mediaRecorder, audioChunks, isRecording>>
    /\ UNCHANGED <<isProcessing, stopTask, pipelines>>
    /\ UNCHANGED mainVars
    /\ UNCHANGED ipcVars
    /\ UNCHANGED keyVars

\* the microphone delivers audio to a recorder that is recording
AudioCaptured(r) ==
    /\ r <= Len(recorders)
    /\ recorders[r].state = "recording"
    /\ ~recorders[r].hasData
    /\ recorders' = [recorders EXCEPT ![r].hasData = TRUE]
    /\ UNCHANGED <<mediaRecorder, audioChunks, isRecording, isProcessing, status,
                   pendingGUM, stopTask, pipelines>>
    /\ UNCHANGED mainVars
    /\ UNCHANGED ipcVars
    /\ UNCHANGED keyVars

\* closeBtn click listener and the Escape keydown listener
DismissRequest ==
    /\ overlayShown
    /\ RendererIdle
    /\ UserMessages < MaxQueue
    /\ IF isRecording
       THEN stopRecording(FALSE)
       ELSE UNCHANGED <<recorders, stopTask, isRecording>>
    /\ toMain' = Append(toMain, [type |-> "hide-overlay"])
    /\ UNCHANGED <<mediaRecorder, audioChunks, isProcessing, status, pendingGUM,
                   pipelines>>
    /\ UNCHANGED mainVars
    /\ UNCHANGED toRenderer
    /\ UNCHANGED keyVars

\* a handleRecordingStop without the empty check
handleRecordingStopUnchecked(r, chunks, cancelled) ==
    /\ isProcessing' = TRUE
    /\ pipelines' = [pipelines EXCEPT ![r] =
          [NoPipeline EXCEPT !.pc = "getkey", !.blob = chunks,
                             !.cancelled = cancelled]]
    /\ UNCHANGED status

\* handleRecordingStop up to its first await: the empty check, then
\* isProcessing = true, the blob, and the get-api-key invoke
handleRecordingStop(r, chunks, cancelled) ==
    IF Len(chunks) = 0
    THEN /\ status' = "No audio"
         /\ UNCHANGED <<isProcessing, pipelines>>
    ELSE /\ isProcessing' = TRUE
         /\ pipelines' = [pipelines EXCEPT ![r] =
               [NoPipeline EXCEPT !.pc = "getkey", !.blob = chunks,
                                  !.cancelled = cancelled]]
         /\ UNCHANGED status

\* the task queued by MediaRecorder.stop(): the dataavailable listener
\* pushes a blob of size > 0, then the stop listener runs handleRecordingStop
StopTask ==
    /\ stopTask # NoTask
    /\ LET chunks == IF stopTask.hasData THEN Append(audioChunks, stopTask.rec)
                     ELSE audioChunks IN
       /\ audioChunks' = chunks
       /\ handleRecordingStop(stopTask.rec, chunks, stopTask.cancelled)
    /\ stopTask' = NoTask
    /\ UNCHANGED <<recorders, mediaRecorder, isRecording, pendingGUM>>
    /\ UNCHANGED mainVars
    /\ UNCHANGED ipcVars
    /\ UNCHANGED keyVars

\* a run that returns without the finally block
pipelineEndsKeepsFlag(p, label) ==
    /\ status' = label
    /\ UNCHANGED isProcessing
    /\ pipelines' = [pipelines EXCEPT ![p] = [NoPipeline EXCEPT !.pc = "done"]]

\* handleRecordingStop returns: its finally block, and its locals are gone
pipelineEnds(p, label) ==
    /\ status' = label
    /\ isProcessing' = FALSE
    /\ pipelines' = [pipelines EXCEPT ![p] = [NoPipeline EXCEPT !.pc = "done"]]

\* handleRecordingStop resumes with the reply of get-api-key
\* (store.get("groqApiKey") || ""); with a key it starts transcribeAudio
GetApiKeyReturns(p) ==
    /\ pipelines[p].pc = "getkey"
    /\ RendererIdle
    /\ LET apiKey == storeKey IN
       IF ~TruthyKey(apiKey)
       THEN pipelineEnds(p, "No API key!")
       ELSE /\ status' = "Transcribing"
            /\ pipelines' = [pipelines EXCEPT
                  ![p].pc = "transcribing",
                  ![p].apiKey = apiKey]
            /\ UNCHANGED isProcessing
    /\ UNCHANGED <<recorders, mediaRecorder, audioChunks, isRecording,
                   pendingGUM, stopTask>>
    /\ UNCHANGED mainVars
    /\ UNCHANGED ipcVars
    /\ UNCHANGED keyVars

\* outcomes of the fetch in transcribeAudio: a JSON body with or without
\* text, a non-ok HTTP status, a rejected fetch
TranscriptionOutcomes ==
    [kind : {"ok"}, text : RawTexts, code : {200}]
    \cup [kind : {"http"}, text : {Undef}, code : HttpErrors]
    \cup [kind : {"network"}, text : {Undef}, code : {0}]

\* the Transcription Service answers (or the fetch fails)
TranscriptionResponds(p) ==
    /\ pipelines[p].pc = "transcribing"
    /\ \E resp \in TranscriptionOutcomes :
          pipelines' = [pipelines EXCEPT ![p].pc = "transcribed", ![p].resp = resp]
    /\ UNCHANGED <<recorders, mediaRecorder, audioChunks, isRecording, isProcessing,
                   status, pendingGUM, stopTask>>
    /\ UNCHANGED mainVars
    /\ UNCHANGED ipcVars
    /\ UNCHANGED keyVars

\* transcribeAudio: throws unless the response is ok
transcribeThrows(resp) == resp.kind # "ok"

\* handleRecordingStop resumes after transcribeAudio: the catch block on a
\* throw, "No speech" on a blank text, else it starts correctWithLLM
TranscriptionReturns(p) ==
    /\ pipelines[p].pc = "transcribed"
    /\ RendererIdle
    /\ LET resp == pipelines[p].resp
           rawText == OrEmpty(resp.text) IN
       IF transcribeThrows(resp)
       THEN pipelineEnds(p, "Error!")
       ELSE IF ~TruthyText(Trim(rawText))
       THEN pipelineEnds(p, "No speech")
       ELSE /\ status' = "Correcting"
            /\ pipelines' = [pipelines EXCEPT
                  ![p].pc = "correcting",
                  ![p].resp = NoResp,
                  ![p].rawText = rawText]
            /\ UNCHANGED isProcessing
    /\ UNCHANGED <<recorders, mediaRecorder, audioChunks, isRecording,
                   pendingGUM, stopTask>>
    /\ UNCHANGED mainVars
    /\ UNCHANGED ipcVars
    /\ UNCHANGED keyVars

\* outcomes of the fetch in correctWithLLM
CorrectionOutcomes ==
    [kind : {"ok"}, text : LlmContents, code : {200}]
    \cup [kind : {"http"}, text : {Undef}, code : HttpErrors]
    \cup [kind : {"network"}, text : {Undef}, code : {0}]

\* the Correction Service answers (or the fetch fails)
CorrectionResponds(p) ==
    /\ pipelines[p].pc = "correcting"
    /\ \E resp \in CorrectionOutcomes :
          pipelines' = [pipelines EXCEPT ![p].pc = "corrected", ![p].resp = resp]
    /\ UNCHANGED <<recorders, mediaRecorder, audioChunks, isRecording, isProcessing,
                   status, pendingGUM, stopTask>>
    /\ UNCHANGED mainVars
    /\ UNCHANGED ipcVars
    /\ UNCHANGED keyVars

\* a correctWithLLM without the response.ok and empty-completion checks
correctNeverThrows(resp) == FALSE

\* correctWithLLM: throws on a non-ok response and on an empty completion
correctThrows(resp) == resp.kind # "ok" \/ ~TruthyText(OptTrim(resp.text))

\* handleRecordingStop resumes after correctWithLLM: the catch block on a
\* throw, else "Pasting" and the paste-text invoke (apiKey is not read again)
CorrectionReturns(p) ==
    /\ pipelines[p].pc = "corrected"
    /\ RendererIdle
    /\ LET resp == pipelines[p].resp
           correctedText == OptTrim(resp.text) IN
       IF correctThrows(resp)
       THEN /\ pipelineEnds(p, "Error!")
            /\ UNCHANGED toMain
       ELSE /\ status' = "Pasting"
            /\ pipelines' = [pipelines EXCEPT
                  ![p].pc = "pasting",
                  ![p].resp = NoResp,
                  ![p].apiKey = "",
                  ![p].correctedText = correctedText]
            /\ toMain' = Append(toMain,
                  [type |-> "paste-text", p |-> p, text |-> correctedText])
            /\ UNCHANGED isProcessing
    /\ UNCHANGED <<recorders, mediaRecorder, audioChunks, isRecording,
                   pendingGUM, stopTask>>
    /\ UNCHANGED mainVars
    /\ UNCHANGED toRenderer
    /\ UNCHANGED keyVars

\* resetUI
resetUI(cause) ==
    /\ IF isRecording
       THEN stopRecording(cause = "trigger")
       ELSE UNCHANGED <<recorders, stopTask, isRecording>>
    /\ isProcessing' = FALSE
    /\ status' = "Ready"
    \* history only: the runs outstanding at a user's dismissal
    /\ pipelines' = [p \in RecIds |->
          IF cause # "paste" /\ pipelines[p].pc \notin {"none", "done"}
          THEN [pipelines[p] EXCEPT !.dismissed = TRUE]
          ELSE pipelines[p]]

\* handleRecordingStop resumes with the result of paste-text
pasteReturns(p, success) ==
    /\ pipelineEnds(p, IF success THEN "Done!" ELSE "Paste failed")
    /\ UNCHANGED <<recorders, stopTask, isRecording>>

\* the renderer receives the next message of the main process:
\* onResetUI, or the reply of the paste-text invoke
RendererMessage ==
    /\ toRenderer # <<>>
    /\ Head(toRenderer).type \in {"reset-ui", "paste-result"}
    /\ RendererIdle
    /\ LET m == Head(toRenderer) IN
       IF m.type = "reset-ui" THEN resetUI(m.cause) ELSE pasteReturns(m.p, m.success)
    /\ toRenderer' = Tail(toRenderer)
    /\ UNCHANGED <<mediaRecorder, audioChunks, pendingGUM>>
    /\ UNCHANGED mainVars
    /\ UNCHANGED toMain
    /\ UNCHANGED keyVars

(* ----------------------- overlay window events ------------------------- *)

\* check-recording-status and recording-status-response messages in flight
StatusMessages ==
    Cardinality({i \in 1..Len(toRenderer) : toRenderer[i].type = "check-recording-status"})
    + Cardinality({i \in 1..Len(toMain) : toMain[i].type = "recording-status-response"})

\* overlayWindow.on("blur"): the shown overlay loses the focus
OverlayBlur ==
    /\ overlayShown
    /\ isOverlayVisible
    /\ StatusMessages < MaxQueue
    /\ toRenderer' = Append(toRenderer, [type |-> "check-recording-status"])
    /\ UNCHANGED mainVars
    /\ UNCHANGED toMain
    /\ UNCHANGED rendVars
    /\ UNCHANGED keyVars

\* onCheckRecordingStatus in the renderer
CheckRecordingStatus ==
    /\ toRenderer # <<>>
    /\ Head(toRenderer).type = "check-recording-status"
    /\ RendererIdle
    /\ toRenderer' = Tail(toRenderer)
    /\ toMain' = Append(toMain,
          [type |-> "recording-status-response", isRecording |-> isRecording])
    /\ UNCHANGED mainVars
    /\ UNCHANGED rendVars
    /\ UNCHANGED keyVars

\* ipcMain.on("recording-status-response"): the body of its if is empty
RecordingStatusResponse ==
    /\ toMain # <<>>
    /\ Head(toMain).type = "recording-status-response"
    /\ toMain' = Tail(toMain)
    /\ UNCHANGED mainVars
    /\ UNCHANGED toRenderer
    /\ UNCHANGED rendVars
    /\ UNCHANGED keyVars

\* a close handler without preventDefault: the window goes away and the
\* flag is left as it was
OverlayCloseDestroys ==
    /\ overlayShown
    /\ UserMessages < MaxQueue
    /\ overlayShown' = FALSE
    /\ mainLog' = <<"destroy">>
    /\ UNCHANGED <<isOverlayVisible, targetWindowHandle, clipboard, storeKey, deliveries>>
    /\ UNCHANGED ipcVars
    /\ UNCHANGED rendVars
    /\ UNCHANGED keyVars

\* overlayWindow.on("close") while the app is not quitting (Alt+F4 on the
\* overlay): preventDefault, then hideOverlay
OverlayCloseRequest ==
    /\ overlayShown
    /\ UserMessages < MaxQueue
    /\ hideOverlay("close")
    /\ UNCHANGED <<targetWindowHandle, clipboard, storeKey, deliveries, toMain>>
    /\ UNCHANGED rendVars
    /\ UNCHANGED keyVars

(* ------------------------ API-key input windows ------------------------ *)

\* the listeners of ls that are not bound to window w
Without(ls, w) == SelectSeq(ls, LAMBDA x : x # w)

\* promptForApiKey answered with Save: showApiKeyInputWindow creates keyWin
\* and registers its two one-shot listeners
OpenKeyWindow ==
    /\ \E w \in KeyWinIds :
          /\ keyWins[w] = "none"
          /\ \A v \in KeyWinIds : v < w => keyWins[v] # "none"
          /\ keyWins' = [keyWins EXCEPT ![w] = "open"]
          /\ onceSave' = Append(onceSave, w)
          /\ onceClose' = Append(onceClose, w)
    /\ staleListenerRan' = FALSE
    /\ UNCHANGED saveAwaits
    /\ UNCHANGED mainVars
    /\ UNCHANGED ipcVars
    /\ UNCHANGED rendVars

\* Save in the open key window v: ipcMain emits save-api-key, and every
\* one-shot handler registered runs with the key of v.  A handler with a
\* non-blank key awaits getStore; with a blank key it closes its keyWin,
\* whose closed event finds the handler already removed.
SaveClick(v, key) ==
    /\ keyWins[v] = "open"
    /\ LET ran == {onceSave[i] : i \in 1..Len(onceSave)} IN
          /\ onceSave' = <<>>
          /\ staleListenerRan' = (\E w \in ran : keyWins[w] = "closed")
          /\ IF TruthyKey(key)
             THEN /\ saveAwaits' = [w \in KeyWinIds |->
                        IF w \in ran THEN key ELSE saveAwaits[w]]
                  /\ UNCHANGED keyWins
             ELSE /\ keyWins' = [w \in KeyWinIds |->
                        IF w \in ran THEN "closed" ELSE keyWins[w]]
                  /\ UNCHANGED saveAwaits
    /\ UNCHANGED onceClose
    /\ UNCHANGED mainVars
    /\ UNCHANGED ipcVars
    /\ UNCHANGED rendVars

\* the handler after its awaits: s.set("groqApiKey", key.trim()), the tray
\* rebuilt, then keyWin.close(), which rejects the handler's promise when
\* the window is already destroyed
SaveCompletes(w) ==
    /\ saveAwaits[w] # Null
    /\ storeKey' = saveAwaits[w]
    /\ saveAwaits' = [saveAwaits EXCEPT ![w] = Null]
    /\ keyWins' = [keyWins EXCEPT ![w] = "closed"]
    /\ onceSave' = Without(onceSave, w)
    /\ staleListenerRan' = FALSE
    /\ UNCHANGED onceClose
    /\ UNCHANGED <<overlayShown, isOverlayVisible, targetWindowHandle, clipboard,
                   deliveries, mainLog>>
    /\ UNCHANGED ipcVars
    /\ UNCHANGED rendVars

\* EventEmitter.emit over the close-key-window listeners ls, in order: a
\* one-shot listener is removed, then called; keyWin.close() closes an open
\* window and throws on a destroyed one, which ends the emit
RECURSIVE emitCloseKeyWindow(_, _)
emitCloseKeyWindow(ls, wins) ==
    IF ls = <<>>
    THEN [wins |-> wins, left |-> <<>>, threw |-> FALSE]
    ELSE IF wins[Head(ls)] = "closed"
         THEN [wins |-> wins, left |-> Tail(ls), threw |-> TRUE]
         ELSE emitCloseKeyWindow(Tail(ls), [wins EXCEPT ![Head(ls)] = "closed"])

\* Cancel in the open key window v: ipcMain emits close-key-window; the
\* closed event of each window closed removes its save handler
CancelClick(v) ==
    /\ keyWins[v] = "open"
    /\ LET r == emitCloseKeyWindow(onceClose, keyWins) IN
          /\ keyWins' = r.wins
          /\ onceClose' = r.left
          /\ onceSave' = SelectSeq(onceSave, LAMBDA x : r.wins[x] # "closed")
          /\ staleListenerRan' = r.threw
    /\ UNCHANGED saveAwaits
    /\ UNCHANGED mainVars
    /\ UNCHANGED ipcVars
    /\ UNCHANGED rendVars

\* the user closes key window w with its title bar: keyWin.on("closed")
\* removes the save handler and nothing else
KeyWindowClosed(w) ==
    /\ keyWins[w] = "open"
    /\ keyWins' = [keyWins EXCEPT ![w] = "closed"]
    /\ onceSave' = Without(onceSave, w)
    /\ staleListenerRan' = FALSE
    /\ UNCHANGED <<onceClose, saveAwaits>>
    /\ UNCHANGED mainVars
    /\ UNCHANGED ipcVars
    /\ UNCHANGED rendVars

(* --------------------------- specification ----------------------------- *)

\* every handler and step but the key window's save
Steps ==
    \/ ActivationTrigger
    \/ HideOverlayMessage
    \/ PasteTextStart
    \/ \E r \in RecIds : RestoreDone(r)
    \/ \E r \in RecIds : SettleDone(r)
    \/ \E r \in RecIds : InjectDone(r)
    \/ RecordClick
    \/ GetUserMediaSettles
    \/ \E r \in RecIds : AudioCaptured(r)
    \/ DismissRequest
    \/ StopTask
    \/ \E p \in RecIds : GetApiKeyReturns(p)
    \/ \E p \in RecIds : TranscriptionResponds(p)
    \/ \E p \in RecIds : TranscriptionReturns(p)
    \/ \E p \in RecIds : CorrectionResponds(p)
    \/ \E p \in RecIds : CorrectionReturns(p)
    \/ RendererMessage

Next ==
    \/ Steps
    \/ \E k \in SavedKeys : SaveApiKey(k)

Spec == Init /\ [][Next]_vars

\* a user who has a key stored and later saves another one (key rotation):
\* the store goes from a key of SavedKeys to a key of RotatedKeys
RotatedKeys == {"k2"}

InitRotation == Init /\ storeKey \in SavedKeys

NextRotation ==
    \/ Steps
    \/ \E k \in RotatedKeys : SaveApiKey(k)

SpecRotation == InitRotation /\ [][NextRotation]_vars

\* recordings per run of the application in the specification that has
\* the overlay window's blur and close events
WindowRecordings == 1

\* the application with the overlay window's blur and close events
NextWindow ==
    \/ ActivationTrigger
    \/ HideOverlayMessage
    \/ PasteTextStart
    \/ \E r \in RecIds : RestoreDone(r)
    \/ \E r \in RecIds : SettleDone(r)
    \/ \E r \in RecIds : InjectDone(r)
    \/ RecordClick /\ Len(recorders') + pendingGUM' <= WindowRecordings
    \/ GetUserMediaSettles
    \/ \E r \in RecIds : AudioCaptured(r)
    \/ DismissRequest
    \/ StopTask
    \/ \E p \in RecIds : GetApiKeyReturns(p)
    \/ \E p \in RecIds : TranscriptionResponds(p)
    \/ \E p \in RecIds : TranscriptionReturns(p)
    \/ \E p \in RecIds : CorrectionResponds(p)
    \/ \E p \in RecIds : CorrectionReturns(p)
    \/ RendererMessage
    \/ \E k \in SavedKeys : SaveApiKey(k)
    \/ OverlayBlur
    \/ CheckRecordingStatus
    \/ RecordingStatusResponse
    \/ OverlayCloseRequest

SpecWindow == Init /\ [][NextWindow]_vars

\* the key input windows of one run, the overlay left alone
NextKeyWindow ==
    \/ OpenKeyWindow
    \/ \E v \in KeyWinIds, key \in Keys : SaveClick(v, key)
    \/ \E w \in KeyWinIds : SaveCompletes(w)
    \/ \E v \in KeyWinIds : CancelClick(v)
    \/ \E w \in KeyWinIds : KeyWindowClosed(w)

SpecKeyWindow == Init /\ [][NextKeyWindow]_vars

\* What the two event loops guarantee: a queued task, a delivered message, a
\* resolved promise, a timer and the callback of an exec with a timeout all
\* run.  Nothing makes the user act, getUserMedia settle or a fetch return:
\* the fetch calls carry no timeout or abort signal.
Fairness ==
    /\ WF_vars(StopTask)
    /\ WF_vars(RendererMessage)
    /\ WF_vars(HideOverlayMessage)
    /\ WF_vars(PasteTextStart)
    /\ \A r \in RecIds :
          /\ WF_vars(RestoreDone(r))
          /\ WF_vars(SettleDone(r))
          /\ WF_vars(InjectDone(r))
          /\ WF_vars(GetApiKeyReturns(r))
          /\ WF_vars(TranscriptionReturns(r))
          /\ WF_vars(CorrectionReturns(r))

FairSpec == Spec /\ Fairness

TypeOK ==
    /\ overlayShown \in BOOLEAN
    /\ isOverlayVisible \in BOOLEAN
    /\ targetWindowHandle \in Handles \cup {Null}
    /\ storeKey \in Keys
    /\ mediaRecorder \in 0..MaxRecordings
    /\ Len(recorders) <= MaxRecordings
    /\ pendingGUM \in 0..MaxRecordings

(* ------------------------------ claims --------------------------------- *)

\* a run of handleRecordingStop between its start and its finally block
InProgress(p) == pipelines[p].pc \notin {"none", "done"}

\* a paste-text handler between its start and its return
Delivering(r) == deliveries[r].pc \notin {"none", "done"}

\* C1: at most one processing pipeline (handleRecordingStop from its start
\* to its finally block) is in progress at any time.
C1_AtMostOnePipeline ==
    Cardinality({p \in RecIds : InProgress(p)}) <= 1

\* C2: a recording cancelled by an activation trigger never leads to a
\* Transcription request, a Correction request or a paste-text delivery.
C2_CancelMakesNoRequest ==
    \A p \in RecIds :
        pipelines[p].cancelled =>
            pipelines[p].pc \notin
                {"transcribing", "transcribed", "correcting", "corrected", "pasting"}

\* C3: after a dismissal reset the UI while a run was outstanding, that run
\* sets no status, issues no further remote call and requests no paste.
C3_DismissedRunIsDiscarded ==
    [][\A p \in RecIds :
          (pipelines[p].dismissed /\ pipelines'[p] # pipelines[p]) =>
              /\ status' = status
              /\ toMain' = toMain
              /\ pipelines'[p].pc \notin {"correcting", "pasting"}]_vars

\* the log of a handler that captured, with either outcome, before it showed
\* or focused the overlay
CapturedBeforeShown(log) ==
    \A i \in 1..Len(log) :
        log[i] \in {"show", "focus"} =>
            \E j \in 1..(i - 1) : log[j] \in {"capture-ok", "capture-failed"}

\* C4: on every transition of the overlay from hidden to shown, the
\* foreground capture has completed, successfully or not, before the overlay
\* window is shown or focused.
C4_CaptureBeforeShow ==
    [][(~overlayShown /\ overlayShown') =>
          /\ mainLog' # <<>>
          /\ mainLog'[1] \in {"capture-ok", "capture-failed"}
          /\ CapturedBeforeShown(mainLog')]_vars

C4_Witness ==
    /\ overlayShown
    /\ mainLog = <<"capture-failed", "show", "focus">>

IsPrefix(s, t) == Len(s) <= Len(t) /\ SubSeq(t, 1, Len(s)) = s

DeliveryOrder ==
    <<"write", "hide", "restore", "restore-returned", "settled", "inject">>
DeliveryOrderNoHandle ==
    <<"write", "hide", "restore-noop", "settled", "inject">>

\* C5: every paste-text delivery writes the clipboard, hides the overlay,
\* attempts the restore, waits the settle delay and only then injects the
\* paste: the injection is running only after all the earlier steps.
C5_DeliveryOrder ==
    \A r \in RecIds :
        Delivering(r) =>
            /\ \/ IsPrefix(deliveries[r].steps, DeliveryOrder)
               \/ IsPrefix(deliveries[r].steps, DeliveryOrderNoHandle)
            /\ Len(deliveries[r].steps) >= 3
            /\ deliveries[r].pc = "injecting" =>
                  deliveries[r].steps \in {DeliveryOrder, DeliveryOrderNoHandle}

C5_Witness ==
    \E r \in RecIds :
        /\ deliveries[r].pc = "injecting"
        /\ deliveries[r].steps = DeliveryOrder

\* C6: the clipboard holds the delivered text when the delivery starts its
\* restore, and still holds it when the delivery ends.
C6_ClipboardHoldsTextToTheEnd ==
    [][\A r \in RecIds :
          /\ (deliveries[r].pc = "none" /\ deliveries'[r].pc # "none") =>
                clipboard' = deliveries'[r].text
          /\ (deliveries[r].pc = "injecting" /\ deliveries'[r].pc = "done") =>
                clipboard' = deliveries[r].text]_vars

\* C7: a failed capture leaves the handle null (never the handle of an
\* earlier capture) and still shows the overlay; a restore with a null
\* handle makes no OS call, and the delivery goes on to the injection.
C7_UnknownHandleIsSafe ==
    [][/\ (mainLog' # mainLog /\ mainLog' # <<>> /\ mainLog'[1] = "capture-failed") =>
              /\ targetWindowHandle' = Null
              /\ overlayShown'
              /\ isOverlayVisible'
       /\ \A r \in RecIds :
              /\ (deliveries[r].pc = "none" /\ deliveries'[r].pc # "none"
                  /\ targetWindowHandle = Null) =>
                    /\ deliveries'[r].pc = "settling"
                    /\ deliveries'[r].steps = <<"write", "hide", "restore-noop">>
              /\ (Delivering(r) /\ deliveries[r].steps[3] = "restore-noop"
                  /\ deliveries'[r] # deliveries[r]) =>
                    \/ deliveries'[r].pc = "injecting"
                    \/ /\ deliveries[r].pc = "injecting"
                       /\ deliveries'[r].pc = "done"]_vars

C7_Witness ==
    \E r \in RecIds :
        /\ deliveries[r].pc = "injecting"
        /\ deliveries[r].steps = DeliveryOrderNoHandle
        /\ targetWindowHandle = Null

\* C8: when the stop task finds zero audio chunks, the status becomes
\* "No audio", no pipeline starts (so no Transcription request is made for
\* that recording) and isProcessing is not set; a pipeline only ever starts
\* from a stop task that found chunks.
C8_EmptyRecordingShortCircuit ==
    [][/\ (stopTask # NoTask /\ stopTask' = NoTask /\ Len(audioChunks') = 0) =>
              /\ status' = "No audio"
              /\ pipelines' = pipelines
              /\ isProcessing' = isProcessing
       /\ \A p \in RecIds :
              (pipelines[p].pc = "none" /\ pipelines'[p].pc # "none") =>
                  /\ stopTask.rec = p
                  /\ Len(audioChunks') > 0]_vars

C8_Witness ==
    /\ status = "No audio"
    /\ stopTask = NoTask
    /\ \E r \in 1..Len(recorders) :
          recorders[r].state = "inactive" /\ pipelines[r].pc = "none"

\* a text that is undefined, empty or whitespace only
IsBlank(t) == t = Undef \/ \A i \in 1..Len(t) : t[i] = " "

\* C9: a Transcription Service response with blank text ends the run with
\* the "No speech" status (not the generic "Error!"), releases processing,
\* and is followed by no Correction call and no paste request.
C9_BlankTranscriptShortCircuit ==
    [][\A p \in RecIds :
          (/\ pipelines[p].pc = "transcribed"
           /\ pipelines[p].resp.kind = "ok"
           /\ IsBlank(pipelines[p].resp.text)
           /\ pipelines'[p].pc # "transcribed") =>
              /\ pipelines'[p].pc = "done"
              /\ status' = "No speech"
              /\ ~isProcessing'
              /\ toMain' = toMain]_vars

C9_Witness ==
    /\ status = "No speech"
    /\ ~isProcessing
    /\ \E p \in RecIds : pipelines[p].pc = "done"

\* the label the catch block shows for every thrown error
GenericErrorLabel == "Error!"

\* C10: a Transcription Service response with HTTP 401 ends the run in a
\* failure state that names the Unauthorized kind (not the label shared by
\* every other failure), with the clipboard unchanged and no Correction call.
C10_UnauthorizedIsReported ==
    [][\A p \in RecIds :
          (/\ pipelines[p].pc = "transcribed"
           /\ pipelines[p].resp.kind = "http"
           /\ pipelines[p].resp.code = 401
           /\ pipelines'[p].pc # "transcribed") =>
              /\ pipelines'[p].pc = "done"
              /\ status' # GenericErrorLabel
              /\ clipboard' = clipboard
              /\ toMain' = toMain]_vars

\* the label of a successful session
SuccessLabel == "Done!"

\* C11: a run whose transcription and correction returned text and whose
\* delivery came back without an injection error ends with the success
\* label and with its corrected text on the clipboard.
C11_SuccessLeavesTextOnClipboard ==
    [][\A p \in RecIds :
          (/\ pipelines[p].pc = "pasting"
           /\ pipelines'[p].pc = "done"
           /\ Head(toRenderer).success) =>
              /\ status' = SuccessLabel
              /\ clipboard' = pipelines[p].correctedText]_vars

\* a run that holds the key it read from the store
HoldsKey(p) ==
    pipelines[p].pc \in {"transcribing", "transcribed", "correcting", "corrected"}

\* C12: a run reads the key once, when it starts: the key it takes is the
\* store's value at that read, the Transcription and the Correction call of
\* the run use that same key, and a key saved while the run is in flight
\* does not change it (the next run reads the new key).
C12_KeyReadOncePerRun ==
    [][\A p \in RecIds :
          /\ (pipelines[p].pc = "getkey" /\ pipelines'[p].pc = "transcribing") =>
                pipelines'[p].apiKey = storeKey
          /\ (HoldsKey(p) /\ HoldsKey(p)') =>
                pipelines'[p].apiKey = pipelines[p].apiKey]_vars

C12_Witness ==
    \E p, q \in RecIds :
        /\ pipelines[p].pc = "correcting"
        /\ pipelines[p].apiKey = "k1"
        /\ storeKey = "k2"
        /\ pipelines[q].pc = "transcribing"
        /\ pipelines[q].apiKey = "k2"

\* the message a step has just sent to the renderer
Sent(q) == q[Len(q)]

\* C13: a failed or timed-out focus restore never aborts a delivery: the
\* restore's callback always resolves (the delivery goes on to the settle
\* delay and sends no result), the injection is attempted afterwards, and a
\* failure result only ever comes from the injection itself.
C13_RestoreFailureDoesNotAbort ==
    [][/\ \A r \in RecIds :
              /\ (deliveries[r].pc = "restoring" /\ deliveries'[r] # deliveries[r]) =>
                    /\ deliveries'[r].pc = "settling"
                    /\ toRenderer' = toRenderer
              /\ (deliveries[r].restoreError /\ deliveries'[r] # deliveries[r]) =>
                    \/ deliveries[r].pc = "settling" /\ deliveries'[r].pc = "injecting"
                    \/ deliveries[r].pc = "injecting" /\ deliveries'[r].pc = "done"
       /\ (Len(toRenderer') > Len(toRenderer)
           /\ Sent(toRenderer').type = "paste-result") =>
              /\ deliveries[Sent(toRenderer').p].pc = "injecting"
              /\ Sent(toRenderer').success <=> Sent(toRenderer').error = NoError]_vars

C13_Witness ==
    \E r \in RecIds :
        /\ deliveries[r].pc = "injecting"
        /\ deliveries[r].restoreError

\* the label of a session whose delivery failed
PasteFailedLabel == "Paste failed"

\* C14: when the injection fails, the delivery's result is a failure that
\* carries a reason, the run ends with the paste-failure label and not the
\* success label, and the corrected text is still on the clipboard.
C14_InjectionFailureIsReported ==
    [][/\ (Len(toRenderer') > Len(toRenderer)
           /\ Sent(toRenderer').type = "paste-result"
           /\ Sent(toRenderer').error # NoError) =>
              ~Sent(toRenderer').success
       /\ \A p \in RecIds :
              (/\ pipelines[p].pc = "pasting"
               /\ pipelines'[p].pc = "done"
               /\ Head(toRenderer).error # NoError) =>
                  /\ status' = PasteFailedLabel
                  /\ status' # SuccessLabel
                  /\ clipboard' = pipelines[p].correctedText]_vars

\* the recorders whose microphone stream is open
OpenStreams == {r \in 1..Len(recorders) : recorders[r].streamOpen}

\* C15: the overlay is never hidden while a microphone stream opened by the
\* recorder is still open; stated for the states in which every dismissal
\* and reset message has been handled, so that a stream open there stays
\* open behind the hidden overlay.
C15_NoOpenStreamBehindHiddenOverlay ==
    (/\ ~overlayShown
     /\ toMain = <<>>
     /\ toRenderer = <<>>
     /\ stopTask = NoTask) =>
        OpenStreams = {}

\* C16: a capture never starts while another is starting or recording: the
\* getUserMedia calls awaited and the open microphone streams are together
\* at most one.
C16_AtMostOneCapture ==
    pendingGUM + Cardinality(OpenStreams) <= 1

\* the labels a session ends with
TerminalLabels ==
    {SuccessLabel, PasteFailedLabel, GenericErrorLabel, "No speech",
     "No API key!", "No audio", "Mic error"}

\* C17: the terminal status of an earlier session is never on the label when
\* the overlay is next opened: the activation that follows a finished
\* session leaves the overlay hidden, or shows it with the idle label
\* (stated for activations that find no reset-ui still on its way).
C17_NoStaleStatusWhenShown ==
    [][(~overlayShown /\ overlayShown' /\ toRenderer = <<>>) =>
          status' \notin TerminalLabels]_vars

\* the labels of a failed session
FailureLabels == TerminalLabels \ {SuccessLabel}

\* the record button's click listener would start a capture
ClickStartsCapture == ENABLED (RecordClick /\ pendingGUM' = pendingGUM + 1)

\* C18: every failed session leaves the renderer ready for the next one: a
\* run that ends, with whatever failure, releases the processing flag; the
\* failures before a run starts (microphone error, no audio) do not touch
\* it; the flag is only ever set while a run is outstanding; and with the
\* flag released the record button starts a new capture.
C18_FailureReleasesProcessing ==
    [][/\ \A p \in RecIds :
              (InProgress(p) /\ pipelines'[p].pc = "done") => ~isProcessing'
       /\ (status' # status /\ status' \in {"No audio", "Mic error"}) =>
              isProcessing' = isProcessing
       /\ isProcessing' => \E p \in RecIds : pipelines'[p].pc \notin {"none", "done"}
       /\ (/\ status \in FailureLabels
           /\ ~isProcessing /\ ~isRecording
           /\ overlayShown /\ RendererIdle
           /\ Len(recorders) + pendingGUM < MaxRecordings) =>
              ClickStartsCapture]_vars

\* a second capture is recording after the first session failed before
\* its delivery
C18_Witness ==
    /\ Len(recorders) = 2
    /\ recorders[2].state = "recording"
    /\ pipelines[1].pc = "done"
    /\ deliveries[1].pc = "none"
    /\ ~isProcessing

\* a run is waiting for the response of a remote service
AwaitingRemote(p) == pipelines[p].pc \in {"transcribing", "correcting"}

\* C19: a run that waits for the Transcription or the Correction Service
\* eventually stops waiting, whether or not the service responds.
C19_RemoteStagesAreBounded ==
    \A p \in RecIds : AwaitingRemote(p) ~> ~AwaitingRemote(p)

\* the position of a stage in a run
StageRank(pc) ==
    CASE pc = "none" -> 0
      [] pc = "getkey" -> 1
      [] pc = "transcribing" -> 2
      [] pc = "transcribed" -> 3
      [] pc = "correcting" -> 4
      [] pc = "corrected" -> 5
      [] pc = "pasting" -> 6
      [] pc = "done" -> 7

\* C20: within a run the stages go strictly forward (no stage is entered
\* twice, so no request is retried); the Correction request is sent only on
\* a successful, non-blank transcription; paste-text is requested only on a
\* successful, non-empty correction, once, by the step that leaves the
\* Correction stage; a run waits for one remote call at a time.
C20_StagesSequentialNoRetry ==
    [][/\ \A p \in RecIds :
              /\ pipelines'[p].pc # pipelines[p].pc =>
                    StageRank(pipelines'[p].pc) > StageRank(pipelines[p].pc)
              /\ (pipelines'[p].pc = "transcribing" /\ pipelines[p].pc # "transcribing") =>
                    pipelines[p].pc = "getkey"
              /\ (pipelines'[p].pc = "correcting" /\ pipelines[p].pc # "correcting") =>
                    /\ pipelines[p].pc = "transcribed"
                    /\ pipelines[p].resp.kind = "ok"
                    /\ ~IsBlank(pipelines[p].resp.text)
              /\ (pipelines'[p].pc = "pasting" /\ pipelines[p].pc # "pasting") =>
                    /\ pipelines[p].pc = "corrected"
                    /\ pipelines[p].resp.kind = "ok"
                    /\ ~IsBlank(pipelines[p].resp.text)
                    /\ toMain' = Append(toMain,
                          [type |-> "paste-text", p |-> p,
                           text |-> pipelines'[p].correctedText])
       /\ (Len(toMain') > Len(toMain) /\ Sent(toMain').type = "paste-text") =>
              /\ pipelines[Sent(toMain').p].pc = "corrected"
              /\ pipelines'[Sent(toMain').p].pc = "pasting"]_vars

C20_Witness ==
    \E p \in RecIds :
        /\ pipelines[p].pc = "pasting"
        /\ \E i \in 1..Len(toMain) :
              toMain[i].type = "paste-text" /\ toMain[i].p = p

\* C21: a blank correction result and every correction failure end the
\* run as a failure with nothing requested; the text of every paste-text
\* request is the trimmed, non-blank content of the Correction Service's
\* response to that run (the raw transcript is never sent in its place).
C21_OnlyNonEmptyCorrectionIsDelivered ==
    [][/\ \A p \in RecIds :
              (/\ pipelines[p].pc = "corrected"
               /\ pipelines'[p].pc # "corrected"
               /\ pipelines[p].resp.kind # "ok" \/ IsBlank(pipelines[p].resp.text)) =>
                  /\ pipelines'[p].pc = "done"
                  /\ status' \in FailureLabels
                  /\ toMain' = toMain
       /\ (Len(toMain') > Len(toMain) /\ Sent(toMain').type = "paste-text") =>
              LET m == Sent(toMain')
                  resp == pipelines[m.p].resp IN
              /\ resp.kind = "ok"
              /\ m.text # Undef
              /\ ~IsBlank(m.text)
              /\ m.text = Trim(resp.text)]_vars

\* a correction that differs from the raw transcript is on its way to the
\* main process
C21_Witness ==
    \E i \in 1..Len(toMain) :
        /\ toMain[i].type = "paste-text"
        /\ toMain[i].text = <<"b">>
        /\ pipelines[toMain[i].p].rawText = <<"a">>

\* C22: the status label matches the stage of the session: "Recording"
\* while recording, "Transcribing" while a Transcription call is outstanding,
\* "Correcting" while a Correction call is outstanding, "Pasting" while a
\* delivery is outstanding.
C22_LabelMatchesStage ==
    /\ isRecording => status = "Recording"
    /\ \A p \in RecIds :
          /\ pipelines[p].pc = "transcribing" => status = "Transcribing"
          /\ pipelines[p].pc = "correcting" => status = "Correcting"
          /\ pipelines[p].pc = "pasting" => status = "Pasting"

\* C23: the window handle a delivery restores is the one captured at the
\* overlay show that preceded its recording, never one captured by a later
\* show: no show captures a handle while a run's paste-text request is on
\* its way to the handler that will read the handle (showOverlay is the
\* only code that captures, the paste-text handler the only one that reads).
C23_NoCaptureBeforeDeliveryReadsHandle ==
    [][(~overlayShown /\ overlayShown') =>
          \A p \in RecIds :
              ~(pipelines[p].pc = "pasting" /\ deliveries[p].pc = "none")]_vars

\* C24: at no time are two paste-text deliveries in progress together.
C24_DeliveryIsNotReentrant ==
    Cardinality({r \in RecIds : Delivering(r)}) <= 1

\* C25: whenever no recording is being made and no run is in progress
\* (the session is idle or has ended), the audio buffer is empty.
C25_AudioBufferEmptyOutsideSession ==
    (/\ ~isRecording
     /\ pendingGUM = 0
     /\ stopTask = NoTask
     /\ \A r \in 1..Len(recorders) : recorders[r].state = "inactive"
     /\ \A p \in RecIds : ~InProgress(p)) =>
        audioChunks = <<>>

\* C26: every activation trigger toggles the overlay: it shows a hidden
\* overlay, and it hides a shown one and sends reset-ui to the renderer;
\* the window and the flag are both flipped, so a second trigger right
\* after the first restores the visibility.
C26_TriggerToggles ==
    [][ActivationTrigger =>
          /\ overlayShown' = ~overlayShown
          /\ isOverlayVisible' = ~isOverlayVisible
          /\ overlayShown =>
                toRenderer' = Append(toRenderer, [type |-> "reset-ui", cause |-> "trigger"])
          /\ ~overlayShown => toRenderer' = toRenderer]_vars

\* a trigger has hidden the overlay that an earlier trigger had shown
C26_Witness ==
    /\ ~overlayShown
    /\ mainLog = <<"hide">>
    /\ toRenderer # <<>>
    /\ Sent(toRenderer) = [type |-> "reset-ui", cause |-> "trigger"]

\* C27: a getUserMedia call that is rejected does not enter Recording: the
\* step that settles it creates and starts no recorder, leaves isRecording
\* as it was (false unless another recorder is recording), queues no stop
\* task, starts no run, and sets the label "Mic error".
C27_MicFailureDoesNotRecord ==
    [][(pendingGUM' = pendingGUM - 1 /\ recorders' = recorders) =>
          /\ status' = "Mic error"
          /\ isRecording' = isRecording
          /\ (\A r \in 1..Len(recorders) : recorders[r].state # "recording") =>
                ~isRecording'
          /\ mediaRecorder' = mediaRecorder
          /\ stopTask' = stopTask
          /\ pipelines' = pipelines
          /\ isProcessing' = isProcessing
          /\ toMain' = toMain]_vars

C27_Witness ==
    /\ status = "Mic error"
    /\ ~isRecording
    /\ recorders = <<>>
    /\ pendingGUM = 0
    /\ \A p \in RecIds : pipelines[p].pc = "none"

\* C29: with an empty stored credential the run ends at the key check:
\* label "No API key!", processing flag false, no Transcription or
\* Correction request, no paste-text request and the clipboard untouched.
C29_MissingKeyEndsRun ==
    [][\A p \in RecIds :
          (/\ pipelines[p].pc = "getkey"
           /\ pipelines'[p].pc # "getkey"
           /\ storeKey = "") =>
              /\ pipelines'[p].pc = "done"
              /\ status' = "No API key!"
              /\ ~isProcessing'
              /\ toMain' = toMain
              /\ clipboard' = clipboard]_vars

C29_Witness ==
    /\ status = "No API key!"
    /\ storeKey = ""
    /\ ~isProcessing
    /\ \E p \in RecIds : pipelines[p].pc = "done" /\ deliveries[p].pc = "none"

\* C28: at the moment the paste keystroke is injected the overlay is
\* hidden: it is never shown between a delivery's hide step and the end of
\* its injection.
C28_OverlayHiddenAtInjection ==
    \A r \in RecIds : deliveries[r].pc = "injecting" => ~overlayShown

\* C30: the flag isOverlayVisible is true exactly when the overlay window
\* is shown; a blur and the status exchange it starts change neither; a
\* close request hides the overlay (flag false, reset-ui sent) and leaves
\* the window in place.
C30_FlagAgreesWithWindow ==
    [][/\ isOverlayVisible = overlayShown
       /\ isOverlayVisible' = overlayShown'
       /\ (OverlayBlur \/ CheckRecordingStatus \/ RecordingStatusResponse) =>
              /\ isOverlayVisible' = isOverlayVisible
              /\ overlayShown' = overlayShown
       /\ OverlayCloseRequest =>
              /\ ~overlayShown'
              /\ ~isOverlayVisible'
              /\ mainLog' = <<"hide">>
              /\ toRenderer' = Append(toRenderer, [type |-> "reset-ui", cause |-> "close"])]_vars

\* the overlay was closed with Alt+F4 after a blur's status exchange
C30_Witness ==
    /\ ~overlayShown
    /\ ~isOverlayVisible
    /\ toRenderer # <<>>
    /\ Sent(toRenderer) = [type |-> "reset-ui", cause |-> "close"]
    /\ \E i \in 1..Len(toMain) : toMain[i].type = "recording-status-response"

\* C31: a key input window that has closed, by Save, Cancel or its title
\* bar, has none of its one-shot listeners (save-api-key, close-key-window)
\* still registered, and no Save or Cancel runs a listener bound to a closed
\* window.
C31_NoListenerOfClosedWindow ==
    /\ \A w \in KeyWinIds :
          keyWins[w] = "closed" =>
             /\ \A i \in 1..Len(onceSave) : onceSave[i] # w
             /\ \A i \in 1..Len(onceClose) : onceClose[i] # w
    /\ ~staleListenerRan

====
